---- MODULE Spec2Model ----
(***************************************************************************)
(* Model of emutools/tex.py: the document content store (ConcreteTexDoc,   *)
(* as specialised by StandardTexDoc), its insertion operations, emission   *)
(* and YAML persistence.                                                   *)
(*                                                                         *)
(* A Python dict is insertion-ordered, and the code relies on that order   *)
(* when it iterates, so a dict is modelled as a sequence of entries        *)
(* [name |-> key, val |-> value] in insertion order.  The emitted text is  *)
(* modelled as the sequence of the strings that `final_text +=` appends,   *)
(* in order: the text is their concatenation.                              *)
(*                                                                         *)
(* The store is a StandardTexDoc: ConcreteTexDoc.prepare_doc is a          *)
(* placeholder that the subclass overrides.  Spec lets every public method *)
(* be called in any order; SpecEmit, SpecDoc, SpecStore and SpecInsert are *)
(* the same store restricted to the methods a property is about.           *)
(***************************************************************************)
EXTENDS Integers, Sequences, FiniteSets, TLC

VARIABLES
    content,            \* self.content: section -> subsection -> list of lines
    prepared,           \* self.prepared
    table_of_contents,  \* self.table_of_contents (set by the constructor)
    ymlfile,            \* <path>/<doc_name>.yml on disk
    log,                \* history: the user's insertion calls that built content
    ret                 \* the last call: its name, where it inserted, its outcome

vars == <<content, prepared, table_of_contents, ymlfile, log, ret>>

(***************************************************************************)
(* Bounds of the model and input sets.                                     *)
(***************************************************************************)
MaxInserts == 2
MaxPrepares == 2

Lines == {"Hello", "World"}
Sections == {"Intro", "Methods", "preamble"}
Subsections == {"", "Key Aims"}
\* section_order requests: none, the permutations of one and of two sections,
\* and lists with a missing, an extra, a duplicated or a reserved name
Orders ==
    {<<>>, <<"Intro">>, <<"Methods">>, <<"Intro", "Methods">>,
     <<"Methods", "Intro">>, <<"Intro", "Intro">>, <<"preamble">>,
     <<"Intro", "preamble">>}
FigureSections == {"Intro"}
TableSections == {"Methods"}
FileTypes == {"jpg", "svg", "png"}

\* Constructor arguments that only appear inside boilerplate lines.
title == "T"
bib_filename == "refs"

\* self.standard_sections
standard_sections == <<"preamble", "endings">>

InSeq(x, s) == \E i \in DOMAIN s : s[i] = x

(***************************************************************************)
(* Insertion-ordered dict.                                                 *)
(***************************************************************************)
HasKey(d, k) == \E i \in DOMAIN d : d[i].name = k
IndexOf(d, k) == CHOOSE i \in DOMAIN d : d[i].name = k
Get(d, k) == d[IndexOf(d, k)].val
Put(d, k, v) ==
    IF HasKey(d, k)
    THEN [d EXCEPT ![IndexOf(d, k)] = [name |-> k, val |-> v]]
    ELSE Append(d, [name |-> k, val |-> v])
Keys(d) == [i \in DOMAIN d |-> d[i].name]

(***************************************************************************)
(* Python's ordering of the strings used as keys (code point order), and   *)
(* sorted() as an insertion sort over it.                                  *)
(***************************************************************************)
NameOrder == <<"", "Intro", "Key Aims", "Methods", "endings", "preamble">>
Rank(n) == CHOOSE i \in DOMAIN NameOrder : NameOrder[i] = n

RECURSIVE InsertSorted(_, _)
InsertSorted(x, s) ==
    IF s = <<>> THEN <<x>>
    ELSE IF Rank(x) <= Rank(Head(s)) THEN <<x>> \o s
    ELSE <<Head(s)>> \o InsertSorted(x, Tail(s))

RECURSIVE sorted(_)
sorted(s) == IF s = <<>> THEN <<>> ELSE InsertSorted(Head(s), sorted(Tail(s)))

\* str.lower().replace(" ", "_") on the names of the model
Label(s) ==
    CASE s = "Intro" -> "intro"
      [] s = "Methods" -> "methods"
      [] s = "Key Aims" -> "key_aims"
      [] s = "preamble" -> "preamble"
      [] s = "endings" -> "endings"
      [] OTHER -> s

(***************************************************************************)
(* ConcreteTexDoc.add_line                                                 *)
(***************************************************************************)
\* add_line with a slip: a line the subsection already holds is not appended
add_line_dedup(c, line, section, subsection) ==
    LET c1 == IF ~HasKey(c, section) THEN Put(c, section, <<>>) ELSE c
        sec == Get(c1, section)
        key == IF subsection = "" THEN "" ELSE subsection
        sec1 == IF ~HasKey(sec, key) THEN Put(sec, key, <<>>) ELSE sec
        old == Get(sec1, key)
        sec2 == Put(sec1, key, IF InSeq(line, old) THEN old ELSE Append(old, line))
    IN  Put(c1, section, sec2)

add_line(c, line, section, subsection) ==
    LET c1 == IF ~HasKey(c, section) THEN Put(c, section, <<>>) ELSE c
        sec == Get(c1, section)
        key == IF subsection = "" THEN "" ELSE subsection
        sec1 == IF ~HasKey(sec, key) THEN Put(sec, key, <<>>) ELSE sec
        sec2 == Put(sec1, key, Append(Get(sec1, key), line))
    IN  Put(c1, section, sec2)

\* A run of consecutive add_line calls with the same section and subsection:
\* the first call creates the entries that are missing, and every call
\* appends its line.
add_lines(c, lines, section, subsection) ==
    IF lines = <<>> THEN c
    ELSE LET c1 == add_line(c, Head(lines), section, subsection)
             sec == Get(c1, section)
         IN  Put(c1, section,
                 Put(sec, subsection, Get(sec, subsection) \o Tail(lines)))

(***************************************************************************)
(* StandardTexDoc.prepare_doc: the boilerplate, in the order it is added.  *)
(***************************************************************************)
standard_packages ==
    <<"hyperref", "graphicx", "longtable", "booktabs", "array", "svg",
      "adjustbox", "float">>

PreambleLines(toc) ==
    <<"\\documentclass{article}">>
    \o [i \in DOMAIN standard_packages |->
            "\\usepackage{" \o standard_packages[i] \o "}"]
    \o <<"\\DeclareUnicodeCharacter{2212}{-}",
         "\\usepackage[sorting=none, style=science]{biblatex}",
         "\\usepackage[a4paper, total={15cm, 20cm}]{geometry}",
         "\\usepackage[labelfont=bf,it]{caption}",
         "\\addbibresource{" \o bib_filename \o ".bib}",
         "\\title{" \o title \o "}",
         "\\begin{document}",
         "\\date{}",
         "\\maketitle">>
    \o (IF toc THEN <<"\\tableofcontents">> ELSE <<>>)

EndingLines == <<"\\printbibliography", "\\end{document}">>

prepare_doc(c, toc) ==
    add_lines(add_lines(c, PreambleLines(toc), "preamble", ""),
              EndingLines, "endings", "")

(***************************************************************************)
(* ConcreteTexDoc.emit_doc                                                 *)
(***************************************************************************)
SectionHeading(section) ==
    "\n\\section{" \o section \o "} \\label{" \o Label(section) \o "}\n"
SubsectionHeading(subsection) ==
    "\n\\subsection{" \o subsection \o "} \\label{" \o Label(subsection) \o "}\n"

EmitLines(lines) == [i \in DOMAIN lines |-> lines[i] \o "\n"]

NotStandard(k) == ~InSeq(k, standard_sections)
NotEmpty(k) == k # ""

RECURSIVE EmitSubsections(_, _)
EmitSubsections(sec, names) ==
    IF names = <<>> THEN <<>>
    ELSE <<SubsectionHeading(Head(names))>>
         \o EmitLines(Get(sec, Head(names)))
         \o EmitSubsections(sec, Tail(names))

EmitSection(c, section) ==
    LET sec == Get(c, section)
    IN  <<SectionHeading(section)>>
        \o (IF HasKey(sec, "") THEN EmitLines(Get(sec, "")) ELSE <<>>)
        \o EmitSubsections(sec, SelectSeq(Keys(sec), NotEmpty))

RECURSIVE EmitSections(_, _)
EmitSections(c, names) ==
    IF names = <<>> THEN <<>>
    ELSE EmitSection(c, Head(names)) \o EmitSections(c, Tail(names))

\* content[section][''] raises KeyError when either key is missing
HasTopLevel(c, section) == HasKey(c, section) /\ HasKey(Get(c, section), "")

\* emit_doc with a slip: the store is prepared before section_order is
\* validated
emit_state_prepare_first(c, prep, toc, section_order) ==
    LET c1 == IF ~prep THEN prepare_doc(c, toc) ELSE c
        content_sections == sorted(SelectSeq(Keys(c1), NotStandard))
    IN  IF section_order # <<>> /\ sorted(section_order) # content_sections
        THEN [status |-> "ValueError", content |-> c1, prepared |-> TRUE]
        ELSE [status |-> IF HasTopLevel(c1, "preamble")
                            /\ HasTopLevel(c1, "endings")
                         THEN "ok" ELSE "KeyError",
              content |-> c1, prepared |-> TRUE]

\* emit_doc with a slip: prepare_doc is called whether or not the store is
\* prepared
emit_state_always_prepares(c, prep, toc, section_order) ==
    LET content_sections == sorted(SelectSeq(Keys(c), NotStandard))
    IN  IF section_order # <<>> /\ sorted(section_order) # content_sections
        THEN [status |-> "ValueError", content |-> c, prepared |-> prep]
        ELSE
          LET c1 == prepare_doc(c, toc)
          IN  [status |-> IF HasTopLevel(c1, "preamble")
                             /\ HasTopLevel(c1, "endings")
                          THEN "ok" ELSE "KeyError",
               content |-> c1, prepared |-> TRUE]

\* What emit_doc does to the store, and how it ends: the validation of
\* section_order, the preparation, and the lookups that can raise KeyError.
emit_state(c, prep, toc, section_order) ==
    LET content_sections == sorted(SelectSeq(Keys(c), NotStandard))
    IN  IF section_order # <<>> /\ sorted(section_order) # content_sections
        THEN [status |-> "ValueError", content |-> c, prepared |-> prep]
        ELSE
          LET c1 == IF ~prep THEN prepare_doc(c, toc) ELSE c
          IN  [status |-> IF HasTopLevel(c1, "preamble")
                             /\ HasTopLevel(c1, "endings")
                          THEN "ok" ELSE "KeyError",
               content |-> c1, prepared |-> TRUE]

\* The text emit_doc builds from the prepared content c
emit_text(c, section_order) ==
    LET order == IF section_order # <<>> THEN section_order ELSE Keys(c)
    IN  EmitLines(Get(Get(c, "preamble"), ""))
        \o EmitSections(c, SelectSeq(order, NotStandard))
        \o EmitLines(Get(Get(c, "endings"), ""))

\* The whole call: the text it returns (none when it raises) and its effect
emit_doc(c, prep, toc, section_order) ==
    LET r == emit_state(c, prep, toc, section_order)
    IN  [status |-> r.status,
         text |-> IF r.status = "ok" THEN emit_text(r.content, section_order)
                  ELSE <<>>,
         content |-> r.content, prepared |-> r.prepared]

(***************************************************************************)
(* ConcreteTexDoc.include_figure.  fig_width is given in hundredths of the *)
(* paper width, so that str(round(fig_width, 2)) is "0.<hundredths>".      *)
(***************************************************************************)
DefaultFigWidth == 85

\* the figure block with a slip: the label line is left out
FigureLines_no_label(fig_title, filename, filetype, fig_path, caption, fig_width) ==
    LET command == IF filetype = "jpg" THEN "includegraphics" ELSE "includesvg"
    IN  <<"\\begin{figure}[H]",
          "\\caption{\\textbf{" \o fig_title \o "} " \o caption \o "}",
          "\\begin{adjustbox}{center, max width=\\paperwidth}",
          "\\" \o command \o "[width=0." \o ToString(fig_width)
              \o "\\paperwidth]{./" \o fig_path \o "/" \o filename \o "."
              \o filetype \o "}",
          "\\end{adjustbox}",
          "\\end{figure}\n">>

FigureLines(fig_title, filename, filetype, fig_path, caption, fig_width) ==
    LET command == IF filetype = "jpg" THEN "includegraphics" ELSE "includesvg"
    IN  <<"\\begin{figure}[H]",
          "\\caption{\\textbf{" \o fig_title \o "} " \o caption \o "}",
          "\\begin{adjustbox}{center, max width=\\paperwidth}",
          "\\" \o command \o "[width=0." \o ToString(fig_width)
              \o "\\paperwidth]{./" \o fig_path \o "/" \o filename \o "."
              \o filetype \o "}",
          "\\end{adjustbox}",
          "\\label{" \o filename \o "}",
          "\\end{figure}\n">>

\* include_figure with a slip: the figure environment is opened before the
\* filetype is checked
include_figure_late_check(c, fig_title, filename, filetype, fig_path, section, subsection, caption, fig_width) ==
    LET opened == add_line(c, "\\begin{figure}[H]", section, subsection)
    IN  IF filetype # "jpg" /\ filetype # "svg"
        THEN [status |-> "ValueError", content |-> opened, lines |-> <<>>]
        ELSE LET lines == FigureLines(fig_title, filename, filetype, fig_path,
                                      caption, fig_width)
             IN  [status |-> "ok",
                  content |-> add_lines(opened, Tail(lines), section, subsection),
                  lines |-> lines]

include_figure(c, fig_title, filename, filetype, fig_path, section, subsection, caption, fig_width) ==
    IF filetype # "jpg" /\ filetype # "svg"
    THEN [status |-> "ValueError", content |-> c, lines |-> <<>>]
    ELSE LET lines == FigureLines(fig_title, filename, filetype, fig_path,
                                  caption, fig_width)
         IN  [status |-> "ok",
              content |-> add_lines(c, lines, section, subsection),
              lines |-> lines]

(***************************************************************************)
(* get_tex_table, get_tex_longtable and ConcreteTexDoc.include_table.      *)
(* The dataframe is modelled by its number of columns (table.shape[1]);    *)
(* pandas' Styler.to_latex is modelled by the pieces of its output that    *)
(* the code looks at.  Proportions and widths are fixed-point numbers in   *)
(* units of 1/10000.                                                       *)
(***************************************************************************)
DefaultTableWidth == 14

to_latex(ncols, col_format_str) ==
    <<"\\begin{tabular}",
      "{" \o col_format_str \o "}\n\\toprule\n<" \o ToString(ncols)
          \o " data columns>\n\\bottomrule\n",
      "\\end{tabular}",
      "\n">>

RECURSIVE Join(_)
Join(pieces) == IF pieces = <<>> THEN "" ELSE Head(pieces) \o Join(Tail(pieces))

NotTabularTag(p) == p # "\\begin{tabular}" /\ p # "\\end{tabular}"

get_tex_longtable(ncols, col_format_str, caption_str, label_str) ==
    "\\begin{longtable}\n"
    \o Join(SelectSeq(to_latex(ncols, col_format_str), NotTabularTag))
    \o caption_str \o label_str \o "\\end{longtable}"

get_tex_table(ncols, col_format_str, caption_str, label_str) ==
    "\\begin{table}\n" \o Join(to_latex(ncols, col_format_str))
    \o caption_str \o label_str \o "\\end{table}"

\* round(1.0 / n_cols, 4), in units of 1/10000
EvenSplit(n_cols) == (20000 + n_cols) \div (2 * n_cols)

WidthStr(w) ==
    ToString(w \div 10000) \o "." \o ToString((w % 10000) \div 1000)
    \o ToString((w % 1000) \div 100) \o ToString((w % 100) \div 10)
    \o ToString(w % 10)

RECURSIVE JoinWith(_, _)
JoinWith(sep, pieces) ==
    IF pieces = <<>> THEN ""
    ELSE IF Len(pieces) = 1 THEN Head(pieces)
    ELSE Head(pieces) \o sep \o JoinWith(sep, Tail(pieces))

include_table(c, ncols, name, tab_title, section, subsection, col_splits, table_width, longtable, caption) ==
    LET n_cols == ncols + 1
    IN  IF col_splits # <<>> /\ Len(col_splits) # n_cols
        THEN [status |-> "ValueError", content |-> c, lines |-> <<>>]
        ELSE
          LET splits == IF col_splits = <<>>
                        THEN [i \in 1..n_cols |-> EvenSplit(n_cols)]
                        ELSE col_splits
              col_widths == [i \in DOMAIN splits |-> splits[i] * table_width]
              col_str == JoinWith(" ",
                  [i \in DOMAIN col_widths |->
                      ">{\\raggedright\\arraybackslash}p{"
                      \o WidthStr(col_widths[i]) \o "cm}"])
              label_str == "\\label{" \o name \o "}\n"
              caption_str ==
                  "\\caption{\\textbf{" \o tab_title \o "} " \o caption \o "}\n"
              table_str ==
                  IF longtable
                  THEN get_tex_longtable(ncols, col_str, caption_str, label_str)
                  ELSE get_tex_table(ncols, col_str, caption_str, label_str)
          IN  [status |-> "ok",
               content |-> add_line(c, table_str, section, subsection),
               lines |-> <<table_str>>]

(***************************************************************************)
(* save_content / load_content.  yaml.dump writes every mapping with its   *)
(* keys sorted (sort_keys defaults to True); sequences keep their order.   *)
(* yaml.load builds each dict in the order of the document.                *)
(***************************************************************************)
RECURSIVE SortEntries(_)
InsertEntry(e, s) ==
    LET less == {i \in DOMAIN s : Rank(s[i].name) < Rank(e.name)}
    IN  SubSeq(s, 1, Cardinality(less)) \o <<e>>
        \o SubSeq(s, Cardinality(less) + 1, Len(s))
SortEntries(d) ==
    IF d = <<>> THEN <<>> ELSE InsertEntry(Head(d), SortEntries(Tail(d)))

yml_dump(c) ==
    SortEntries([i \in DOMAIN c |->
        [name |-> c[i].name, val |-> SortEntries(c[i].val)]])

yml_load(data) == data

(***************************************************************************)
(* The state machine: one action per public method.                        *)
(***************************************************************************)
Ret(op, status) ==
    [op |-> op, status |-> status, section |-> "", subsection |-> "",
     filetype |-> "", ncols |-> 0, nsplits |-> 0]

\* include_table requests for a two-column dataframe: (col_splits, longtable)
TableRequests ==
    {<< <<>>, FALSE >>, << <<2500, 2500, 5000>>, TRUE >>,
     << <<5000, 5000>>, FALSE >>, << <<2500, 2500, 2500, 2500>>, TRUE >>}

\* number of copies of the boilerplate currently in the preamble
Copies(c) ==
    IF HasTopLevel(c, "preamble")
    THEN Len(SelectSeq(Get(Get(c, "preamble"), ""),
                       LAMBDA l : l = "\\documentclass{article}"))
    ELSE 0

Init ==
    /\ content = <<>>
    /\ prepared = FALSE
    /\ table_of_contents \in BOOLEAN
    /\ ymlfile = [exists |-> FALSE, data |-> <<>>, log |-> <<>>]
    /\ log = <<>>
    /\ ret = Ret("__init__", "ok")

AddLine ==
    /\ Len(log) < MaxInserts
    /\ \E line \in Lines, section \in Sections, subsection \in Subsections :
        /\ content' = add_line(content, line, section, subsection)
        /\ log' = Append(log, [section |-> section, subsection |-> subsection,
                               lines |-> <<line>>])
        /\ ret' = [Ret("add_line", "ok") EXCEPT !.section = section,
                                                !.subsection = subsection]
    /\ UNCHANGED <<prepared, table_of_contents, ymlfile>>

PrepareDoc ==
    /\ Copies(content) < MaxPrepares
    /\ prepared' = TRUE
    /\ content' = prepare_doc(content, table_of_contents)
    /\ ret' = Ret("prepare_doc", "ok")
    /\ UNCHANGED <<table_of_contents, ymlfile, log>>

EmitDoc ==
    /\ \E section_order \in Orders :
        LET r == emit_state(content, prepared, table_of_contents,
                            section_order)
        IN  /\ content' = r.content
            /\ prepared' = r.prepared
            /\ ret' = Ret("emit_doc", r.status)
    /\ UNCHANGED <<table_of_contents, ymlfile, log>>

\* The text goes to <doc_name>.tex, which the program never reads back: the
\* file is not part of the state.
WriteDoc ==
    /\ \E order \in Orders :
        LET r == emit_state(content, prepared, table_of_contents, order)
        IN  /\ content' = r.content
            /\ prepared' = r.prepared
            /\ ret' = Ret("write_doc", r.status)
    /\ UNCHANGED <<table_of_contents, ymlfile, log>>

IncludeFigure ==
    /\ \E filetype \in FileTypes, section \in FigureSections,
          subsection \in Subsections :
        LET r == include_figure(content, "Fig", "fig_a", filetype, "figures",
                                section, subsection, "", DefaultFigWidth)
        IN  /\ r.status = "ok" => Len(log) < MaxInserts
            /\ content' = r.content
            /\ log' = IF r.status = "ok"
                      THEN Append(log, [section |-> section,
                                        subsection |-> subsection,
                                        lines |-> r.lines])
                      ELSE log
            /\ ret' = [Ret("include_figure", r.status) EXCEPT
                          !.section = section, !.subsection = subsection,
                          !.filetype = filetype]
    /\ UNCHANGED <<prepared, table_of_contents, ymlfile>>

IncludeTable ==
    /\ \E ncols \in {2}, req \in TableRequests,
          section \in TableSections, subsection \in {""} :
        LET col_splits == req[1]
            longtable == req[2]
            r == include_table(content, ncols, "tab_a", "Tab", section,
                               subsection, col_splits, DefaultTableWidth,
                               longtable, "")
        IN  /\ r.status = "ok" => Len(log) < MaxInserts
            /\ content' = r.content
            /\ log' = IF r.status = "ok"
                      THEN Append(log, [section |-> section,
                                        subsection |-> subsection,
                                        lines |-> r.lines])
                      ELSE log
            /\ ret' = [Ret("include_table", r.status) EXCEPT
                          !.section = section, !.subsection = subsection,
                          !.ncols = ncols, !.nsplits = Len(col_splits)]
    /\ UNCHANGED <<prepared, table_of_contents, ymlfile>>

\* ymlfile.log is history: the calls that built the mapping the file holds.
SaveContent ==
    /\ ymlfile' = [exists |-> TRUE, data |-> yml_dump(content), log |-> log]
    /\ ret' = Ret("save_content", "ok")
    /\ UNCHANGED <<content, prepared, table_of_contents, log>>

\* open(..., 'r') raises FileNotFoundError when nothing was saved
LoadContent ==
    /\ content' = IF ymlfile.exists THEN yml_load(ymlfile.data) ELSE content
    /\ log' = IF ymlfile.exists THEN ymlfile.log ELSE log
    /\ ret' = Ret("load_content",
                  IF ymlfile.exists THEN "ok" ELSE "FileNotFoundError")
    /\ UNCHANGED <<prepared, table_of_contents, ymlfile>>

Next ==
    \/ AddLine
    \/ PrepareDoc
    \/ EmitDoc
    \/ WriteDoc
    \/ IncludeFigure
    \/ IncludeTable
    \/ SaveContent
    \/ LoadContent

Spec == Init /\ [][Next]_vars

\* Lines are added, the document is prepared and emitted.
NextEmit ==
    \/ AddLine
    \/ PrepareDoc
    \/ EmitDoc

SpecEmit == Init /\ [][NextEmit]_vars

\* A document-building session: lines are added, the document is prepared,
\* emitted and written; nothing is restored from disk.
NextDoc ==
    \/ AddLine
    \/ PrepareDoc
    \/ EmitDoc
    \/ WriteDoc

SpecDoc == Init /\ [][NextDoc]_vars

\* The store with its persistence.
NextStore ==
    \/ AddLine
    \/ PrepareDoc
    \/ EmitDoc
    \/ SaveContent
    \/ LoadContent

SpecStore == Init /\ [][NextStore]_vars

\* The insertion operations.
NextInsert ==
    \/ AddLine
    \/ IncludeFigure
    \/ IncludeTable

SpecInsert == Init /\ [][NextInsert]_vars

(***************************************************************************)
(* Vocabulary of the properties.                                           *)
(***************************************************************************)
Count(x, s) == Cardinality({i \in DOMAIN s : s[i] = x})
Elems(s) == {s[i] : i \in DOMAIN s}

\* s and t hold the same names the same number of times
IsPermutation(s, t) ==
    /\ Len(s) = Len(t)
    /\ \A x \in Elems(s) \cup Elems(t) : Count(x, s) = Count(x, t)

Reserved == {"preamble", "endings"}
UserSections(c) == SelectSeq(Keys(c), LAMBDA k : k \notin Reserved)

\* the lines stored at content[section][subsection], none when there is no
\* such entry
LinesOf(c, section, subsection) ==
    IF HasKey(c, section) /\ HasKey(Get(c, section), subsection)
    THEN Get(Get(c, section), subsection)
    ELSE <<>>

HasSub(c, section, subsection) ==
    HasKey(c, section) /\ HasKey(Get(c, section), subsection)

AllSections == Sections \cup Reserved
AllSubsections == Subsections

RECURSIVE Flatten(_)
Flatten(ss) == IF ss = <<>> THEN <<>> ELSE Head(ss) \o Flatten(Tail(ss))

\* every line stored under a section, whatever its subsection
AllLinesOf(c, section) ==
    IF HasKey(c, section)
    THEN Flatten([i \in DOMAIN Get(c, section) |-> Get(c, section)[i].val])
    ELSE <<>>

BoilerplateLines == Elems(PreambleLines(TRUE)) \cup Elems(EndingLines)
BoilerplateChunks == {l \o "\n" : l \in BoilerplateLines}
SectionHeadings == {SectionHeading(n) : n \in AllSections}
SubsectionHeadings == {SubsectionHeading(n) : n \in AllSubsections \ {""}}
IsHeading(chunk) == chunk \in SectionHeadings \cup SubsectionHeadings

\* what a call of emit_doc(section_order) would return in the current state
EmitNow(section_order) ==
    emit_doc(content, prepared, table_of_contents, section_order)

(***************************************************************************)
(* The text the insertion history calls for: sections in the order they    *)
(* were first used, in each the lines added without a subsection, then     *)
(* the subsections in the order they were first used.                      *)
(***************************************************************************)
RECURSIVE FirstUses(_)
FirstUses(names) ==
    IF names = <<>> THEN <<>>
    ELSE LET rest == FirstUses(SubSeq(names, 1, Len(names) - 1))
             last == names[Len(names)]
         IN  IF last \in Elems(rest) THEN rest ELSE Append(rest, last)

LoggedLines(section, subsection) ==
    Flatten([i \in DOMAIN log |->
        IF log[i].section = section /\ log[i].subsection = subsection
        THEN log[i].lines ELSE <<>>])

LoggedSubsections(section) ==
    FirstUses(Flatten([i \in DOMAIN log |->
        IF log[i].section = section /\ log[i].subsection # ""
        THEN <<log[i].subsection>> ELSE <<>>]))

ExpectedSection(section) ==
    LET subs == LoggedSubsections(section)
    IN  <<SectionHeading(section)>>
        \o EmitLines(LoggedLines(section, ""))
        \o Flatten([i \in DOMAIN subs |->
              <<SubsectionHeading(subs[i])>>
              \o EmitLines(LoggedLines(section, subs[i]))])

ExpectedBody ==
    LET secs == FirstUses([i \in DOMAIN log |-> log[i].section])
    IN  Flatten([i \in DOMAIN secs |-> ExpectedSection(secs[i])])

OnlyUserSections == \A i \in DOMAIN log : log[i].section \notin Reserved

C2_ValidOrderSucceeds ==
    \A S \in Orders :
        (S # <<>> /\ IsPermutation(S, UserSections(content))) =>
            LET r == EmitNow(S)
            IN  /\ r.status = "ok"
                /\ SelectSeq(r.text, LAMBDA ch : ch \in SectionHeadings)
                     = [i \in DOMAIN S |-> SectionHeading(S[i])]

(***************************************************************************)
(* C3.  For every non-empty section_order S that is not a permutation of   *)
(* the non-reserved section names, emit_doc(S) raises ValueError, returns  *)
(* no text and leaves content and the prepared flag as they were.          *)
(***************************************************************************)
C3_BadOrderRejected ==
    \A S \in Orders :
        (S # <<>> /\ ~IsPermutation(S, UserSections(content))) =>
            LET r == EmitNow(S)
            IN  /\ r.status = "ValueError"
                /\ r.text = <<>>
                /\ r.content = content
                /\ r.prepared = prepared

\* an emit_doc call was rejected on a store that holds lines, and the store
\* is still unprepared
C3_Witness ==
    /\ ret.op = "emit_doc" /\ ret.status = "ValueError"
    /\ ~prepared
    /\ Len(log) = 2
    /\ ~HasKey(content, "preamble")

(***************************************************************************)
(* C4.  Over any sequence of add_line, prepare_doc, emit_doc and write_doc *)
(* calls the boilerplate is injected exactly once: once the store is       *)
(* prepared, the boilerplate lines stored under 'preamble' and 'endings',  *)
(* and those of every emitted text, are the ones of prepare_doc, each      *)
(* once, in its fixed order.                                               *)
(***************************************************************************)
C4_BoilerplateOnce ==
    prepared =>
        /\ SelectSeq(LinesOf(content, "preamble", ""),
                     LAMBDA l : l \in BoilerplateLines)
             = PreambleLines(table_of_contents)
        /\ SelectSeq(LinesOf(content, "endings", ""),
                     LAMBDA l : l \in BoilerplateLines)
             = EndingLines
        /\ SelectSeq(EmitNow(<<>>).text, LAMBDA ch : ch \in BoilerplateChunks)
             = EmitLines(PreambleLines(table_of_contents) \o EndingLines)

(***************************************************************************)
(* C5.  Round trip: what save_content writes, load_content reads back as   *)
(* a content mapping identical to the saved one, with the same order of    *)
(* sections, of subsections and of lines.                                  *)
(***************************************************************************)
C5_SaveLoadRoundTrip ==
    ret.op = "save_content" => yml_load(ymlfile.data) = content

(***************************************************************************)
(* C6.  A rejected insertion leaves the store unchanged: include_figure    *)
(* with a filetype other than 'jpg' or 'svg', and include_table with a     *)
(* non-empty col_splits whose length is not the number of columns plus     *)
(* one, raise ValueError and leave the content mapping as it was.          *)
(***************************************************************************)
C6_RejectedInsertionNoChange ==
    [][ ( \/ ret'.op = "include_figure" /\ ret'.filetype \notin {"jpg", "svg"}
          \/ ret'.op = "include_table" /\ ret'.nsplits # 0
                /\ ret'.nsplits # ret'.ncols + 1 )
        => (ret'.status = "ValueError" /\ content' = content) ]_vars

\* an include_table call was rejected on a store that already holds a
\* figure and a table
C6_Witness ==
    /\ ret.op = "include_table" /\ ret.status = "ValueError"
    /\ ret.nsplits # 0
    /\ Len(log) = 2
    /\ HasKey(content, "Intro") /\ HasKey(content, "Methods")
    /\ Len(log[1].lines) + Len(log[2].lines) = 8

\* the positions of the first and of the last heading of a text
FirstHeading(text) ==
    IF \E i \in DOMAIN text : IsHeading(text[i])
    THEN CHOOSE i \in DOMAIN text :
            IsHeading(text[i]) /\ \A j \in 1..(i - 1) : ~IsHeading(text[j])
    ELSE Len(text) + 1

LastHeading(text) ==
    IF \E i \in DOMAIN text : IsHeading(text[i])
    THEN CHOOSE i \in DOMAIN text :
            IsHeading(text[i]) /\ \A j \in (i + 1)..Len(text) : ~IsHeading(text[j])
    ELSE 0

(***************************************************************************)
(* C7.  In every text emit_doc returns, every line stored under 'preamble' *)
(* (whatever its subsection) comes before the first heading, every line    *)
(* stored under 'endings' comes after the last heading, and no heading is  *)
(* generated for 'preamble' or 'endings' or for their subsections.         *)
(***************************************************************************)
C7_ReservedVerbatim ==
    \A S \in Orders :
        LET r == EmitNow(S)
            before == SubSeq(r.text, 1, FirstHeading(r.text) - 1)
            after == SubSeq(r.text, LastHeading(r.text) + 1, Len(r.text))
            pre == AllLinesOf(r.content, "preamble")
            post == AllLinesOf(r.content, "endings")
            user == UserSections(r.content)
        IN  r.status = "ok" =>
              /\ \A l \in Elems(pre) : Count(l \o "\n", before) >= Count(l, pre)
              /\ \A l \in Elems(post) : Count(l \o "\n", after) >= Count(l, post)
              /\ \A n \in Reserved : Count(SectionHeading(n), r.text) = 0
              /\ \A n \in AllSubsections \ {""} :
                    Count(SubsectionHeading(n), r.text)
                      = Cardinality({i \in DOMAIN user :
                                        HasSub(r.content, user[i], n)})

\* A successful include_figure step makes the line sequence at
\* content[section][subsection] n elements longer and changes no other
\* section or subsection.
FigureAppends(n) ==
    (ret'.op = "include_figure" /\ ret'.status = "ok") =>
        /\ Len(LinesOf(content', ret'.section, ret'.subsection))
             = Len(LinesOf(content, ret'.section, ret'.subsection)) + n
        /\ \A s \in AllSections, ss \in AllSubsections :
              (s # ret'.section \/ ss # ret'.subsection) =>
                  /\ HasSub(content', s, ss) = HasSub(content, s, ss)
                  /\ LinesOf(content', s, ss) = LinesOf(content, s, ss)

(***************************************************************************)
(* C8, as claimed.  A successful include_figure call stores the figure     *)
(* block as one unit: the line sequence at content[section][subsection]    *)
(* grows by exactly one element and nothing else changes.                  *)
(***************************************************************************)
C8_FigureIsOneElement == [][FigureAppends(1)]_vars

(***************************************************************************)
(* C8, amended.  A successful include_figure call stores the figure block  *)
(* as the seven lines of the figure environment, one per add_line call:    *)
(* the line sequence at content[section][subsection] grows by exactly      *)
(* seven elements and nothing else changes.                                *)
(***************************************************************************)
C8_FigureIsSevenLines == [][FigureAppends(7)]_vars

\* a figure went into a section that already held a line in another
\* subsection
C8_Witness ==
    /\ ret.op = "include_figure" /\ ret.status = "ok"
    /\ Len(log) = 2
    /\ log[1].section = ret.section /\ log[1].subsection # ret.subsection
    /\ Len(LinesOf(content, ret.section, ret.subsection)) = 7

(***************************************************************************)
(* C9.  Once the store is prepared, 'preamble' and 'endings' exist, each   *)
(* with an empty-string subsection, in every state reachable by add_line,  *)
(* prepare_doc, emit_doc, save_content and load_content.                   *)
(***************************************************************************)
C9_PreparedHasReserved ==
    prepared =>
        /\ HasSub(content, "preamble", "")
        /\ HasSub(content, "endings", "")

(***************************************************************************)
(* C10.  emit_doc is read-only on a prepared store: the call, successful   *)
(* or not, leaves content and the prepared flag unchanged; and a second    *)
(* emit_doc with the same section_order, made right after a first one      *)
(* (which may be the one that prepares the store), ends the same way and   *)
(* returns the identical text.                                             *)
(***************************************************************************)
C10_EmitReadOnly ==
    \A S \in Orders :
        LET r1 == EmitNow(S)
            r2 == emit_doc(r1.content, r1.prepared, table_of_contents, S)
        IN  /\ prepared => (r1.content = content /\ r1.prepared = prepared)
            /\ r2.status = r1.status
            /\ r2.text = r1.text
            /\ r2.content = r1.content

\* emit_doc has run on a prepared store that holds user lines
C10_Witness ==
    /\ ret.op = "emit_doc" /\ ret.status = "ok"
    /\ prepared
    /\ Len(log) = 2
    /\ Copies(content) = 1

====
